---- MODULE Spec2Model ----
(***************************************************************************)
(* A model of CBLiteC.c, the utility wrapper over Couchbase Lite C:       *)
(* database handles (CBLU_Db), sessions (CBLU_Session), write documents   *)
(* (CBLU_DocW) and read documents (CBLU_DocR).                            *)
(*                                                                         *)
(* The Couchbase Lite engine is outside the repository.  What the wrapper  *)
(* asks of it is modelled at the place of each call: one database object,  *)
(* two collections, a transaction nesting level per database object, the   *)
(* documents committed to each collection and the documents the database   *)
(* object sees (its open transaction's writes included).  Each engine call *)
(* that can fail draws its outcome from BOOLEAN.                           *)
(*                                                                         *)
(* Three specifications share the variables:                               *)
(*   SpecDb   the database handles, from before the first cblu_open;       *)
(*   Spec     sessions, writers and readers on the handle cblu_open        *)
(*            returned, each document one field wide;                      *)
(*   SpecVal  the typed fields of one document: the setters and array      *)
(*            builders of its writer, the save, the getters of a reader.   *)
(***************************************************************************)
EXTENDS Integers, Sequences, FiniteSets, TLC

\* ---------------------------------------------------------------- bounds
MaxHandles  == 2    \* CBLU_Db objects ever allocated
MaxSessions == 2    \* CBLU_Session objects ever allocated
MaxWriters  == 2    \* CBLU_DocW objects ever allocated
MaxReaders  == 1    \* CBLU_DocR objects ever allocated
MaxVal      == 1    \* values a writer's field is set to: 1..MaxVal
MaxStale    == 1    \* calls of cblu_close on one already freed handle

NULL == 0

Handles  == 1..MaxHandles
Sessions == 1..MaxSessions
Writers  == 1..MaxWriters
Readers  == 1..MaxReaders
Vals     == 1..MaxVal

\* The engine's objects.  TheDb is the CBLDatabase* the one database opens as;
\* DefColl and NamedColl are the CBLCollection* of the default collection and
\* of the named collection cblu_open_collection resolves.
TheDb     == 1
DefColl   == 1
NamedColl == 2
Colls     == {DefColl, NamedColl}
DocId     == 1

VARIABLES
    hnd,        \* CBLU_Db objects: [st, db, coll, derived, stale]
    slot,       \* the caller's CBLU_Db* variable that out_db points to
    eng,        \* the engine's database object and the references to it
    collHeld,   \* CBLCollection references acquired and not yet released
    sess,       \* CBLU_Session objects: [st, db, coll, txn_active]
    wr,         \* CBLU_DocW objects: [st, core, val, rel]
    rd,         \* CBLU_DocR objects: [st, doc]
    committed,  \* engine: the documents committed to each collection
    working,    \* engine: the documents the database object reads and writes
    hist,       \* what the calls so far did (engine calls issued, faults)
    last,       \* the last call on a database handle: name, arguments, result
    props,      \* one writer's props, the FLMutableDict of its document, by key
    given,      \* what the setters were given for each key of props
    builder,    \* the FLMutableArray cblu_docw_begin_array returned, if open
    saved,      \* the properties of the document that writer's save stored
    phase,      \* that writer: "writing", then "saved" or "failed"
    res         \* the last call on a reader of that document and its outputs

lifeVars == <<hnd, slot, eng, collHeld, sess, wr, rd, committed, working, hist, last>>
valVars  == <<props, given, builder, saved, phase, res>>
vars == <<lifeVars, valVars>>

\* The caller's variable before any call wrote it: uninitialised.
Garbage == -1

\* ------------------------------------------------------------ allocation
\* calloc: the next object never allocated before (NULL when the bound is
\* reached, and the action allocating is then not taken).
FreshIn(f, S) == IF \E i \in S : f[i].st = "unalloc"
                 THEN CHOOSE i \in S : f[i].st = "unalloc" /\ \A j \in S : j < i => f[j].st # "unalloc"
                 ELSE NULL

NoHandle == [st |-> "unalloc", db |-> NULL, coll |-> NULL, derived |-> FALSE, stale |-> 0]

\* ---------------------------------------------------------------- engine
\* A document as the engine stores it: the writer that saved it (w, 0 for no
\* document) and the value of its field (v, 0 for no field).
NoDoc  == [w |-> 0, v |-> 0]
NoDocs == [c \in Colls |-> NoDoc]

\* A session, a writer and a reader never allocated.  Beside the fields of the
\* structs, a session keeps what its calls asked of the engine (how it began,
\* the CBLDatabase_EndTransaction calls made for it and their commit
\* argument) and what the call ending it wrote to stderr and returned; a
\* writer keeps the
\* CBLDocument_Release calls on its document, the engine's outcome of its save
\* and what the call finalizing it returned; a reader keeps the document as
\* CBLCollection_GetDocument returned it.
NoSess   == [st |-> "unalloc", db |-> NULL, coll |-> NULL, txn_active |-> FALSE,
             began |-> "none", endReq |-> "none", endCalls |-> 0, endArg |-> "none",
             endLog |-> "none", endRet |-> "none"]
NoWriter == [st |-> "unalloc", core |-> NULL, val |-> 0, rel |-> 0, engine |-> "none",
             ret |-> "none"]
NoReader == [st |-> "unalloc", core |-> NULL, doc |-> NoDoc, got |-> NoDoc]

\* The engine's call on a database pointer works only on an open object.
DbUsable(e, d) == d = TheDb /\ e.st = "open"

\* CBLDatabase_Close(d, NULL) then CBLDatabase_Release(d).  Closing ends the
\* database object's transaction, if one is open, without committing it.
EngCloseRelease(e, d) ==
    [e EXCEPT !.st = "closed",
              !.closes = e.closes + 1,
              !.releases = e.releases + 1,
              !.refs = e.refs - 1,
              !.txnLevel = 0]

\* The documents the database object sees once it is closed and released with
\* a transaction still open: the transaction's writes are gone.
EngCloseDocs(e, d) == IF d # NULL /\ e.txnLevel > 0 THEN committed ELSE working

\* The record of a call: its name, the arguments the properties read, what it
\* returned and the line it wrote to stderr.
Call(op, arg, ret, log) == [op |-> op, arg |-> arg, ret |-> ret, log |-> log]

\* ------------------------------------------------------------------ Init
\* The typed values are not looked at where the objects' lifetimes are.
NoValues ==
    /\ props = <<>> /\ given = <<>> /\ builder = <<>>
    /\ saved = <<>> /\ phase = "none" /\ res = <<>>

\* Before any call: no object allocated, the database not opened.
InitDb ==
    /\ NoValues
    /\ hnd = [h \in Handles |-> NoHandle]
    /\ slot = Garbage
    /\ eng = [st |-> "none", refs |-> 0, closes |-> 0, releases |-> 0, txnLevel |-> 0]
    /\ collHeld = [c \in Colls |-> 0]
    /\ sess = [s \in Sessions |-> NoSess]
    /\ wr = [w \in Writers |-> NoWriter]
    /\ rd = [r \in Readers |-> NoReader]
    /\ committed = NoDocs
    /\ working = NoDocs
    /\ hist = [touchedFreed |-> FALSE, danglingDb |-> FALSE, readFreedSess |-> FALSE]
    /\ last = [op |-> "none", arg |-> <<>>, ret |-> "void", log |-> ""]

\* The handle cblu_open returns when every engine call of it succeeds.
OpenedHandle == [st |-> "live", db |-> TheDb, coll |-> DefColl, derived |-> FALSE, stale |-> 0]

\* After cblu_open("db", dir, &slot) returned true: the state the sessions,
\* writers and readers start from.
InitLife ==
    /\ hnd = [h \in Handles |-> IF h = 1 THEN OpenedHandle ELSE NoHandle]
    /\ slot = 1
    /\ eng = [st |-> "open", refs |-> 1, closes |-> 0, releases |-> 0, txnLevel |-> 0]
    /\ collHeld = [c \in Colls |-> IF c = DefColl THEN 1 ELSE 0]
    /\ sess = [s \in Sessions |-> NoSess]
    /\ wr = [w \in Writers |-> NoWriter]
    /\ rd = [r \in Readers |-> NoReader]
    /\ committed = NoDocs
    /\ working = NoDocs
    /\ hist = [touchedFreed |-> FALSE, danglingDb |-> FALSE, readFreedSess |-> FALSE]
    /\ last = [op |-> "open", arg |-> [name |-> 1, out |-> TRUE], ret |-> "true", log |-> ""]

Init == NoValues /\ InitLife

\* -------------------------------------------------------------- Database
\* A cblu_open that returns on the missing default collection without closing
\* and releasing the database it opened.
OpenLeaksDb(e) == e

\* cblu_open, lines 71-76: the database opened and its default collection
\* could not be resolved.
OpenNoCollection(e) == EngCloseRelease(e, TheDb)

\* CBLDatabase_Open's result on the engine: a database object, open, with the
\* caller's one reference.
EngOpened(e) == [e EXCEPT !.st = "open", !.refs = e.refs + 1]

\* The caller's variable after cblu_open's line 57 and 58.
OpenClearsOut(db_name, has_out) == has_out /\ db_name # NULL

\* bool cblu_open(db_name, dir, out_db).  db_name is NULL or a name; has_out
\* tells whether out_db is non-null; openOk and collOk are the outcomes of
\* CBLDatabase_Open and CBLDatabase_DefaultCollection.
cblu_open(db_name, has_out, openOk, collOk) ==
    LET h == FreshIn(hnd, Handles)
        args == [name |-> db_name, out |-> has_out]
    IN
    /\ UNCHANGED <<sess, wr, rd, committed, working, hist, valVars>>
    /\ IF ~OpenClearsOut(db_name, has_out)
       THEN /\ last' = Call("open", args, "false", "")
            /\ UNCHANGED <<hnd, slot, eng, collHeld>>
       ELSE IF ~(openOk /\ eng.st = "none")
       THEN /\ slot' = NULL
            /\ last' = Call("open", args, "false", "CBL open failed")
            /\ UNCHANGED <<hnd, eng, collHeld>>
       ELSE IF ~collOk
       THEN /\ slot' = NULL
            /\ eng' = OpenNoCollection(EngOpened(eng))
            /\ last' = Call("open", args, "false", "CBL default collection failed")
            /\ UNCHANGED <<hnd, collHeld>>
       ELSE /\ h # NULL
            /\ eng' = EngOpened(eng)
            /\ collHeld' = [collHeld EXCEPT ![DefColl] = @ + 1]
            /\ hnd' = [hnd EXCEPT ![h] = OpenedHandle]
            /\ slot' = h
            /\ last' = Call("open", args, "true", "")

\* cblu_close, lines 87-88, on the fields c (core.coll) and d (core.db) it
\* reads from the handle: the engine and the collection references after it.
CloseFields(c, d) ==
    [eng  |-> IF d # NULL THEN EngCloseRelease(eng, d) ELSE eng,
     held |-> IF c # NULL THEN [collHeld EXCEPT ![c] = @ - 1] ELSE collHeld,
     dangling |-> d # NULL /\ ~DbUsable(eng, d)]

\* void cblu_close(db).  h is NULL, a live handle, or a pointer to a handle
\* already freed: then the fields are read from freed memory and hold whatever
\* the allocator left there (c, d).
cblu_close(h, c, d) ==
    /\ UNCHANGED <<slot, sess, wr, rd, committed, valVars>>
    /\ IF h = NULL
       THEN /\ c = NULL /\ d = NULL
            /\ last' = Call("close", [h |-> h, st |-> "null"], "void", "")
            /\ UNCHANGED <<hnd, eng, collHeld, hist, working>>
       ELSE /\ hnd[h].st \in {"live", "freed"}
            /\ IF hnd[h].st = "live"
               THEN c = hnd[h].coll /\ d = hnd[h].db
               ELSE hnd[h].stale < MaxStale
            /\ LET f == CloseFields(c, d) IN
               /\ eng' = f.eng
               /\ working' = EngCloseDocs(eng, d)
               /\ collHeld' = f.held
               /\ hist' = [hist EXCEPT !.touchedFreed = @ \/ hnd[h].st = "freed",
                                       !.danglingDb = @ \/ f.dangling]
            /\ hnd' = [hnd EXCEPT ![h].st = "freed", ![h].coll = NULL, ![h].db = NULL,
                                  ![h].stale = IF hnd[h].st = "freed" THEN @ + 1 ELSE @]
            /\ last' = Call("close", [h |-> h, st |-> hnd[h].st, derived |-> hnd[h].derived],
                            "void", "")

\* bool cblu_open_collection(base, scopeName, collName, out_handle).  The
\* names are NULL, the name of the scope or collection that exists ("named"),
\* or another name ("other").
cblu_open_collection(base, scopeName, collName, has_out) ==
    LET h == FreshIn(hnd, Handles)
        args == [base |-> base, scope |-> scopeName, coll |-> collName, out |-> has_out]
        usable == DbUsable(eng, hnd[base].db)
    IN
    /\ base \in Handles /\ hnd[base].st = "live"
    /\ UNCHANGED <<eng, sess, wr, rd, committed, working, valVars>>
    /\ IF scopeName = "NULL" \/ collName = "NULL" \/ ~has_out
       THEN /\ last' = Call("open_collection", args, "false", "")
            /\ UNCHANGED <<hnd, slot, collHeld, hist>>
       ELSE /\ hist' = [hist EXCEPT !.danglingDb = @ \/ ~usable]
            /\ IF ~usable \/ scopeName # "named" \/ collName # "named"
               THEN /\ slot' = NULL
                    /\ last' = Call("open_collection", args, "false", "")
                    /\ UNCHANGED <<hnd, collHeld>>
               ELSE /\ h # NULL
                    /\ collHeld' = [collHeld EXCEPT ![NamedColl] = @ + 1]
                    /\ hnd' = [hnd EXCEPT ![h] = [st |-> "live", db |-> hnd[base].db,
                                                  coll |-> NamedColl, derived |-> TRUE,
                                                  stale |-> 0]]
                    /\ slot' = h
                    /\ last' = Call("open_collection", args, "true", "")

Names == {"NULL", "named", "other"}

NextDb ==
    \/ \E n \in {NULL, 1}, o \in BOOLEAN, a \in BOOLEAN, b \in BOOLEAN : cblu_open(n, o, a, b)
    \/ \E h \in {NULL} \cup Handles, c \in {NULL} \cup Colls, d \in {NULL, TheDb} : cblu_close(h, c, d)
    \/ \E h \in Handles, sn \in Names, cn \in Names, o \in BOOLEAN : cblu_open_collection(h, sn, cn, o)

\* --------------------------------------------------------------- Session
\* A CBLDatabase_BeginTransaction that reports success and begins nothing.
EngBeginNone(e) == e

\* CBLDatabase_BeginTransaction(d): transactions of one database object nest.
EngBegin(e) == [e EXCEPT !.txnLevel = @ + 1]

\* CBLDatabase_EndTransaction(d, commit): only the end of the outermost
\* transaction commits or aborts; ok is the engine's outcome of that.
EngEndLevel(e) == [e EXCEPT !.txnLevel = @ - 1]
EndCommits(e, commit, ok) == e.txnLevel = 1 /\ commit /\ ok
EndAborts(e, commit, ok)  == e.txnLevel = 1 /\ ~(commit /\ ok)

\* CBLU_Session* cblu_session_begin_txn(db, use_txn).  beginOk is the outcome
\* of CBLDatabase_BeginTransaction.
cblu_session_begin_txn(h, use_txn, beginOk) ==
    LET s == FreshIn(sess, Sessions) IN
    /\ UNCHANGED <<hnd, slot, collHeld, wr, rd, committed, working, last, valVars>>
    /\ IF h = NULL
       THEN /\ use_txn /\ beginOk
            /\ UNCHANGED <<sess, eng, hist>>
       ELSE /\ hnd[h].st = "live"
            /\ s # NULL
            /\ LET usable == DbUsable(eng, hnd[h].db)
                   new == [NoSess EXCEPT !.st = "live", !.db = hnd[h].db, !.coll = hnd[h].coll]
               IN
               IF ~use_txn
               THEN /\ sess' = [sess EXCEPT ![s] = [new EXCEPT !.began = "plain"]]
                    /\ UNCHANGED <<eng, hist>>
               ELSE /\ hist' = [hist EXCEPT !.danglingDb = @ \/ ~usable]
                    /\ IF ~(usable /\ beginOk)
                       THEN UNCHANGED <<sess, eng>>
                       ELSE /\ eng' = EngBegin(eng)
                            /\ sess' = [sess EXCEPT ![s] = [new EXCEPT !.txn_active = TRUE,
                                                                       !.began = "txn"]]

\* CBLU_Session* cblu_session_begin(db)
cblu_session_begin(h) == cblu_session_begin_txn(h, FALSE, TRUE)

Outcome(commit) == IF commit THEN "commit" ELSE "rollback"

\* A cblu_session_end_txn that does not look at txn_active.
EndCallsAlways(s) == TRUE

\* cblu_session_end_txn, lines 115-121: whether CBLDatabase_EndTransaction is
\* called for session s.
EndCallsEngine(s) == sess[s].txn_active

\* void cblu_session_end_txn(s, commit).  endOk is the outcome of
\* CBLDatabase_EndTransaction when it ends the outermost transaction.
cblu_session_end_txn(s, commit, endOk) ==
    /\ UNCHANGED <<hnd, slot, collHeld, wr, rd, last, valVars>>
    /\ IF s = NULL
       THEN /\ commit /\ endOk
            /\ UNCHANGED <<sess, eng, committed, working, hist>>
       ELSE /\ sess[s].st = "live"
            /\ IF ~EndCallsEngine(s)
               THEN /\ endOk
                    /\ sess' = [sess EXCEPT ![s].st = "freed", ![s].endRet = "void",
                                            ![s].endReq = Outcome(commit)]
                    /\ UNCHANGED <<eng, committed, working, hist>>
               ELSE LET inTxn == DbUsable(eng, sess[s].db) /\ eng.txnLevel > 0
                        ok == inTxn /\ (eng.txnLevel = 1 => endOk)
                    IN
                    /\ eng' = IF inTxn THEN EngEndLevel(eng) ELSE eng
                    /\ committed' = IF inTxn /\ EndCommits(eng, commit, endOk)
                                    THEN working ELSE committed
                    /\ working' = IF inTxn /\ EndAborts(eng, commit, endOk)
                                  THEN committed ELSE working
                    /\ hist' = [hist EXCEPT !.danglingDb = @ \/ ~DbUsable(eng, sess[s].db)]
                    /\ sess' = [sess EXCEPT ![s].st = "freed", ![s].txn_active = FALSE,
                                            ![s].endCalls = @ + 1,
                                            ![s].endReq = Outcome(commit),
                                            ![s].endArg = Outcome(commit),
                                            ![s].endLog = IF ok THEN "" ELSE "CBL end txn failed",
                                            ![s].endRet = "void"]

\* void cblu_session_end(s)
cblu_session_end(s, endOk) == cblu_session_end_txn(s, TRUE, endOk)

NextSession ==
    \/ \E h \in {NULL} \cup Handles, t \in BOOLEAN, ok \in BOOLEAN : cblu_session_begin_txn(h, t, ok)
    \/ \E h \in {NULL} \cup Handles : cblu_session_begin(h)
    \/ \E s \in {NULL} \cup Sessions, c \in BOOLEAN, ok \in BOOLEAN : cblu_session_end_txn(s, c, ok)
    \/ \E s \in {NULL} \cup Sessions, ok \in BOOLEAN : cblu_session_end(s, ok)

\* ------------------------------------------------------------- Write doc
\* CBLU_DocW* cblu_docw_begin(s, doc_id).  doc_id is NULL or DocId.  The new
\* document of CBLDocument_CreateWithID is the writer's own: no collection
\* holds it.
cblu_docw_begin(s, doc_id) ==
    LET w == FreshIn(wr, Writers) IN
    /\ UNCHANGED <<hnd, slot, eng, collHeld, sess, rd, committed, working, hist, last, valVars>>
    /\ IF s = NULL \/ doc_id = NULL
       THEN /\ IF s = NULL THEN doc_id = NULL ELSE sess[s].st = "live"
            /\ UNCHANGED wr
       ELSE /\ sess[s].st = "live"
            /\ w # NULL
            /\ wr' = [wr EXCEPT ![w] = [NoWriter EXCEPT !.st = "live", !.core = s]]

\* void cblu_docw_set_i64(d, key, v).  has_key tells whether key is non-null.
cblu_docw_set_i64(w, has_key, v) ==
    /\ wr[w].st = "live"
    /\ UNCHANGED <<hnd, slot, eng, collHeld, sess, rd, committed, working, hist, last, valVars>>
    /\ wr' = IF has_key THEN [wr EXCEPT ![w].val = v] ELSE wr

\* cblu_docw_save, line 220: d->core->coll.  d->core points into the session
\* the writer was begun on; once that session is freed the read is of freed
\* memory and yields the old pointer (stale = TRUE) or not a collection.
SaveColl(w, stale) ==
    IF sess[wr[w].core].st = "live" \/ stale THEN sess[wr[w].core].coll ELSE NULL

\* CBLCollection_SaveDocument(c, doc): the documents of the database object
\* and the committed ones after a save that succeeded.  Inside a transaction
\* of the database object the save is part of that transaction.
EngSaveWorking(c, doc)   == [working EXCEPT ![c] = doc]
EngSaveCommitted(c, doc) == IF eng.txnLevel = 0 THEN [committed EXCEPT ![c] = doc] ELSE committed

\* A finalization that frees the writer and forgets its document handle.
FinalizedLeak(w) == [wr[w] EXCEPT !.st = "freed"]

\* cblu_docw_save, lines 222-225, and cblu_docw_free, lines 231-233: the
\* writer after its document handle is released and it is freed.
Finalized(w) == [wr[w] EXCEPT !.st = "freed", !.rel = @ + 1]

\* cblu_docw_save, lines 220 and 226: what it returns on the engine's outcome.
SaveReturns(ok) == IF ok THEN "true" ELSE "false"

\* bool cblu_docw_save(d).  saveOk is the outcome of
\* CBLCollection_SaveDocument on a usable collection.
cblu_docw_save(w, saveOk, stale) ==
    LET c == SaveColl(w, stale)
        freed == sess[wr[w].core].st # "live"
        usable == c # NULL /\ DbUsable(eng, sess[wr[w].core].db)
        ok == usable /\ saveOk
        doc == [w |-> w, v |-> wr[w].val]
    IN
    /\ wr[w].st = "live"
    /\ IF freed THEN TRUE ELSE stale
    /\ UNCHANGED <<hnd, slot, eng, collHeld, sess, rd, last, valVars>>
    /\ hist' = [hist EXCEPT !.readFreedSess = @ \/ freed,
                            !.danglingDb = @ \/ (c # NULL /\ ~usable)]
    /\ working' = IF ok THEN EngSaveWorking(c, doc) ELSE working
    /\ committed' = IF ok THEN EngSaveCommitted(c, doc) ELSE committed
    /\ wr' = [wr EXCEPT ![w] = [Finalized(w) EXCEPT !.engine = IF ok THEN "ok" ELSE "failed",
                                                    !.ret = SaveReturns(ok)]]

\* void cblu_docw_free(d)
cblu_docw_free(w) ==
    /\ wr[w].st = "live"
    /\ UNCHANGED <<hnd, slot, eng, collHeld, sess, rd, committed, working, hist, last, valVars>>
    /\ wr' = [wr EXCEPT ![w] = [Finalized(w) EXCEPT !.ret = "void"]]

\* -------------------------------------------------------------- Read doc
\* CBLU_DocR* cblu_docr_get(s, doc_id): CBLCollection_GetDocument returns the
\* document as the database object sees it, or NULL when there is none.
cblu_docr_get(s, doc_id) ==
    LET r == FreshIn(rd, Readers)
        usable == DbUsable(eng, sess[s].db)
        doc == IF usable /\ doc_id # NULL THEN working[sess[s].coll] ELSE NoDoc
    IN
    /\ sess[s].st = "live"
    /\ UNCHANGED <<hnd, slot, eng, collHeld, sess, wr, committed, working, last, valVars>>
    /\ hist' = [hist EXCEPT !.danglingDb = @ \/ (doc_id # NULL /\ ~usable)]
    /\ IF doc.w = 0
       THEN UNCHANGED rd
       ELSE /\ r # NULL
            /\ rd' = [rd EXCEPT ![r] = [st |-> "live", core |-> s, doc |-> doc, got |-> doc]]

\* A reader whose props are the collection's current document, not the
\* document it was given.
DocPropsLive(r) == working[sess[rd[r].core].coll]

\* A reader's props, line 245: CBLDocument_Properties of the document it holds.
DocProps(r) == rd[r].doc

\* bool cblu_docr_get_i64(d, key, out) on the field the writers set: the
\* result, and *out after the call when it held `out` before.
docr_get_i64(r, out) ==
    IF DocProps(r).v = 0 THEN [ret |-> "false", out |-> out]
                         ELSE [ret |-> "true", out |-> DocProps(r).v]

cblu_docr_get_i64(r) ==
    /\ rd[r].st = "live"
    /\ UNCHANGED vars

\* void cblu_docr_free(d)
cblu_docr_free(r) ==
    /\ rd[r].st = "live"
    /\ UNCHANGED <<hnd, slot, eng, collHeld, sess, wr, committed, working, hist, last, valVars>>
    /\ rd' = [rd EXCEPT ![r].st = "freed"]

NextDoc ==
    \/ \E s \in {NULL} \cup Sessions, d \in {NULL, DocId} : cblu_docw_begin(s, d)
    \/ \E w \in Writers, k \in BOOLEAN, v \in Vals : cblu_docw_set_i64(w, k, v)
    \/ \E w \in Writers, ok \in BOOLEAN, stale \in BOOLEAN : cblu_docw_save(w, ok, stale)
    \/ \E w \in Writers : cblu_docw_free(w)
    \/ \E s \in Sessions, d \in {NULL, DocId} : cblu_docr_get(s, d)
    \/ \E r \in Readers : cblu_docr_get_i64(r)
    \/ \E r \in Readers : cblu_docr_free(r)

\* cblu_close on a live handle, while sessions are in use.
CloseLive == \E h \in Handles : hnd[h].st = "live" /\ cblu_close(h, hnd[h].coll, hnd[h].db)

Next == NextSession \/ NextDoc \/ CloseLive

\* Sessions, writers and readers on the handle cblu_open returned.
Spec == Init /\ [][Next]_vars

\* The database handles alone, from before the first cblu_open.
SpecDb == InitDb /\ [][NextDb]_vars

\* ============================================================ typed values
\* One document's properties: what the setters of a writer store in props,
\* what cblu_docw_save hands to the engine and what the getters of a reader
\* of the saved document return.
IntBits     == 2    \* bits of int64_t and uint64_t, scaled down
MaxKeys     == 1    \* keys of the document: 1..MaxKeys
MaxArr      == 2    \* elements an array is given or appended
MaxStr      == 2    \* characters of a string
MaxChar     == 2    \* characters: 1..MaxChar
MaxBuilders == 1    \* FLMutableArray objects cblu_docw_begin_array returns

Mod       == 2^IntBits
INT64_MIN == -(Mod \div 2)
INT64_MAX == (Mod \div 2) - 1
Int64     == INT64_MIN..INT64_MAX
UInt64    == 0..(Mod - 1)

\* A double is the number of halves it holds: 1 is 0.5, -3 is -1.5, -2 is the
\* integer -1.0, and 2 * Mod is an integer beyond INT64_MAX.
Doubles == {-3, -2, 0, 1, 2 * Mod}

Keys     == 1..MaxKeys
Chars    == 1..MaxChar
Strs     == UNION {[1..n -> Chars] : n \in 0..MaxStr}
Builders == 1..MaxBuilders
NUL      == 0

Min(a, b) == IF a < b THEN a ELSE b

\* ----------------------------------------------------------------- Fleece
\* The values of a Fleece dictionary, by the type FLValue_GetType reports.
\* FLDict_Get returns NULL for a key the dictionary lacks, and the type of
\* NULL is kFLUndefined.
FLUndefined == [t |-> "undefined"]
FLInt(n)    == [t |-> "number", rep |-> "int", n |-> n]
FLUInt(n)   == [t |-> "number", rep |-> "uint", n |-> n]
FLBool(b)   == [t |-> "boolean", b |-> b]
FLStr(s)    == [t |-> "string", s |-> s]

\* FLMutableDict_SetDouble and FLMutableArray_AppendDouble: Fleece keeps a
\* double that is an integer of the signed range as that integer.
FLDouble(h) ==
    IF h % 2 = 0 /\ (h \div 2) \in Int64
    THEN FLInt(h \div 2)
    ELSE [t |-> "number", rep |-> "double", n |-> h]

\* An array value: the items of an array literal, or (ref # 0) the mutable
\* array of a builder, which the dictionary holds by reference.
FLArrayOf(items) == [t |-> "array", ref |-> 0, items |-> items]
FLArrayRef(b)    == [t |-> "array", ref |-> b, items |-> <<>>]

\* A blob value, CBLBlob_CreateWithData(contentType, contents) set into the
\* dictionary: its content type and its content bytes.  Fleece keeps it as a
\* dictionary, so it is no number, string, boolean or array.
FLBlob(ct, data) == [t |-> "blob", ct |-> ct, data |-> data]

\* "application/octet-stream", the content type of line 175, at the scale of
\* the strings here.
OctetStream == <<2, 1>>

\* The casts between int64_t and uint64_t keep the bits.
ToSigned(u)   == IF u > INT64_MAX THEN u - Mod ELSE u
ToUnsigned(i) == i % Mod

\* A double's integer part, toward zero.
Trunc(h) == IF h >= 0 THEN h \div 2 ELSE -((-h) \div 2)

\* FLValue_AsInt.  `any` is what the conversion of a double outside the signed
\* range leaves: C does not define it.
FLValue_AsInt(v, any) ==
    IF v.rep = "int" THEN v.n
    ELSE IF v.rep = "uint" THEN ToSigned(v.n)
    ELSE IF Trunc(v.n) \in Int64 THEN Trunc(v.n) ELSE any

\* FLValue_AsUnsigned
FLValue_AsUnsigned(v, any) ==
    IF v.rep = "uint" THEN v.n ELSE ToUnsigned(FLValue_AsInt(v, any))

\* FLValue_AsDouble, in halves
FLValue_AsDouble(v) == IF v.rep = "double" THEN v.n ELSE 2 * v.n

\* FLValue_AsBool: a boolean's value; a number is true unless its integer is 0.
FLValue_AsBool(v, any) == IF v.t = "boolean" THEN v.b ELSE FLValue_AsInt(v, any) # 0

fl_is_number(v) == v.t = "number"
fl_is_string(v) == v.t = "string"

\* fl_from_c(s ? s : ""): has_s tells whether the char pointer is non-null.
fl_from_c(has_s, s) == IF has_s THEN s ELSE <<>>

\* FLDict_Get(d->props, fl_from_c(key))
FLDict_Get(p, key) == p[key]

\* The static setters on props.
set_key_i64(p, k, v) == [p EXCEPT ![k] = FLInt(v)]
set_key_u64(p, k, v) == [p EXCEPT ![k] = FLUInt(v)]
set_key_f64(p, k, v) == [p EXCEPT ![k] = FLDouble(v)]
set_key_str(p, k, has_s, s) == [p EXCEPT ![k] = FLStr(fl_from_c(has_s, s))]

\* ----------------------------------------------------- a writer's fields
\* What a key was last given (by which setter, with which arguments), and an
\* array builder: the items of its FLMutableArray and the appends that made
\* them.
NoGiven   == [kind |-> "none"]
NoBuilder == [st |-> "unalloc", items |-> <<>>, calls |-> <<>>]

\* Setting a key releases the value props held for it.  An array of a builder
\* that props no longer holds is out of the document for good: no getter
\* reaches it, and it is not followed further.
Detached(key) ==
    [b \in Builders |-> IF props[key] = FLArrayRef(b)
                        THEN [NoBuilder EXCEPT !.st = "detached"]
                        ELSE builder[b]]

\* d->props is usable until cblu_docw_save or cblu_docw_free released the
\* document; the calls followed on the writer and its builders are those made
\* until then.
Writing == phase = "writing"

\* The frame of a setter: d is whether the writer pointer is non-null, key is
\* NULL or a key.
SetProps(d, key, p, g) ==
    /\ UNCHANGED <<lifeVars, saved, phase, res>>
    /\ IF d /\ key # NULL
       THEN props' = p /\ given' = [given EXCEPT ![key] = g] /\ builder' = Detached(key)
       ELSE UNCHANGED <<props, given, builder>>

\* void cblu_docw_set_i64(d, key, v), on props
cblu_docw_set_i64_props(d, key, v) ==
    /\ Writing
    /\ SetProps(d, key, set_key_i64(props, key, v), [kind |-> "i64", v |-> v])

\* void cblu_docw_set_u64(d, key, v)
cblu_docw_set_u64(d, key, v) ==
    /\ Writing
    /\ SetProps(d, key, set_key_u64(props, key, v), [kind |-> "u64", v |-> v])

\* void cblu_docw_set_f64(d, key, v)
cblu_docw_set_f64(d, key, v) ==
    /\ Writing
    /\ SetProps(d, key, set_key_f64(props, key, v), [kind |-> "f64", v |-> v])

\* void cblu_docw_set_str(d, key, s)
cblu_docw_set_str(d, key, has_s, s) ==
    /\ Writing
    /\ SetProps(d, key, set_key_str(props, key, has_s, s),
                [kind |-> "str", has_s |-> has_s, s |-> s])

\* void cblu_docw_set_bool(d, key, v)
cblu_docw_set_bool(d, key, v) ==
    /\ Writing
    /\ SetProps(d, key, [props EXCEPT ![key] = FLBool(v)], [kind |-> "bool", v |-> v])

\* bool cblu_docw_set_blob(d, key, data, size, contentType).  has_data and
\* has_ct tell whether data and contentType are non-null; data holds the size
\* bytes behind the pointer.  createOk is CBLBlob_CreateWithData's outcome.
cblu_docw_set_blob(d, key, has_data, data, size, has_ct, ct, createOk) ==
    LET ok == d /\ key # NULL /\ (has_data \/ size = 0) /\ createOk IN
    /\ Writing
    /\ UNCHANGED <<lifeVars, saved, phase>>
    /\ res' = [op |-> "set_blob", ret |-> ok]
    /\ IF ok
       THEN /\ props' = [props EXCEPT ![key] = FLBlob(IF has_ct THEN ct ELSE OctetStream,
                                                     SubSeq(data, 1, size))]
            /\ given' = [given EXCEPT ![key] = [kind |-> "blob", has_ct |-> has_ct,
                                                ct |-> ct, data |-> data, size |-> size]]
            /\ builder' = Detached(key)
       ELSE UNCHANGED <<props, given, builder>>

\* A cblu_docw_set_i64_array that appends nothing for a null pointer.
I64LiteralOrNone(has_a, a, n) == IF has_a THEN [i \in 1..n |-> FLInt(a[i])] ELSE <<>>

\* The loops of lines 152 and 160: n appends of a[i], or of zero when the
\* pointer a is null (has_a = FALSE).
F64Literal(has_a, a, n) == [i \in 1..n |-> FLDouble(IF has_a THEN a[i] ELSE 0)]
I64Literal(has_a, a, n) == [i \in 1..n |-> FLInt(IF has_a THEN a[i] ELSE 0)]

\* void cblu_docw_set_f64_array(d, key, a, n)
cblu_docw_set_f64_array(d, key, has_a, a, n) ==
    /\ Writing
    /\ SetProps(d, key, [props EXCEPT ![key] = FLArrayOf(F64Literal(has_a, a, n))],
                [kind |-> "f64_array", has_a |-> has_a, a |-> a, n |-> n])

\* void cblu_docw_set_i64_array(d, key, a, n)
cblu_docw_set_i64_array(d, key, has_a, a, n) ==
    /\ Writing
    /\ SetProps(d, key, [props EXCEPT ![key] = FLArrayOf(I64Literal(has_a, a, n))],
                [kind |-> "i64_array", has_a |-> has_a, a |-> a, n |-> n])

\* FLMutableArray cblu_docw_begin_array(d, key): the new array is set into
\* props and returned; the caller and props both hold it.
cblu_docw_begin_array(d, key) ==
    LET arr == FreshIn(builder, Builders) IN
    /\ Writing
    /\ UNCHANGED <<lifeVars, saved, phase, res>>
    /\ IF d /\ key # NULL
       THEN /\ arr # NULL
            /\ builder' = [Detached(key) EXCEPT ![arr] = [NoBuilder EXCEPT !.st = "open"]]
            /\ props' = [props EXCEPT ![key] = FLArrayRef(arr)]
            /\ given' = [given EXCEPT ![key] = [kind |-> "builder", arr |-> arr]]
       ELSE UNCHANGED <<props, given, builder>>

\* FLMutableArray_Append...(arr, item) when arr is non-null.  The appends
\* followed are those on a handle the caller still holds.
ArrayAppend(arr, item, call) ==
    /\ UNCHANGED <<lifeVars, props, given, saved, phase, res>>
    /\ IF arr = NULL
       THEN UNCHANGED builder
       ELSE /\ builder[arr].st = "open"
            /\ Len(builder[arr].items) < MaxArr
            /\ builder' = [builder EXCEPT ![arr].items = Append(@, item),
                                          ![arr].calls = Append(@, call)]

cblu_docw_array_append_i64(arr, v) ==
    /\ Writing
    /\ ArrayAppend(arr, FLInt(v), [kind |-> "i64", v |-> v])

cblu_docw_array_append_u64(arr, v) ==
    /\ Writing
    /\ ArrayAppend(arr, FLUInt(v), [kind |-> "u64", v |-> v])

cblu_docw_array_append_f64(arr, v) ==
    /\ Writing
    /\ ArrayAppend(arr, FLDouble(v), [kind |-> "f64", v |-> v])

cblu_docw_array_append_bool(arr, v) ==
    /\ Writing
    /\ ArrayAppend(arr, FLBool(v), [kind |-> "bool", v |-> v])

cblu_docw_array_append_str(arr, has_s, s) ==
    /\ Writing
    /\ ArrayAppend(arr, FLStr(fl_from_c(has_s, s)),
                   [kind |-> "str", has_s |-> has_s, s |-> s])

\* void cblu_docw_end_array(d, arr): the caller's reference is released.
cblu_docw_end_array(arr) ==
    /\ Writing
    /\ UNCHANGED <<lifeVars, props, given, saved, phase, res>>
    /\ IF arr = NULL
       THEN UNCHANGED builder
       ELSE /\ builder[arr].st = "open"
            /\ builder' = [builder EXCEPT ![arr].st = "ended"]

\* CBLCollection_SaveDocument encodes the properties as they are at the save:
\* an array held by reference is stored with the items it has then.
SavedProperties(p) ==
    [k \in Keys |-> IF p[k].t = "array" /\ p[k].ref # 0
                    THEN FLArrayOf(builder[p[k].ref].items)
                    ELSE p[k]]

\* bool cblu_docw_save(d), on props.  saveOk is the engine's outcome.
cblu_docw_save_props(d, saveOk) ==
    /\ Writing
    /\ UNCHANGED <<lifeVars, props, given, builder>>
    /\ res' = [op |-> "save", ret |-> d /\ saveOk]
    /\ IF ~d THEN UNCHANGED <<saved, phase>>
       ELSE IF saveOk THEN saved' = SavedProperties(props) /\ phase' = "saved"
       ELSE phase' = "failed" /\ UNCHANGED saved

\* ----------------------------------------------------- a reader's fields
\* CBLU_DocR* cblu_docr_get(s, doc_id), on props: the reader of the document a
\* save stored.  After a save that failed there is no document and no reader.
cblu_docr_get_props ==
    /\ phase \in {"saved", "failed"}
    /\ UNCHANGED <<lifeVars, props, given, builder, saved>>
    /\ res' = [op |-> "get", ret |-> phase = "saved"]
    /\ phase' = IF phase = "saved" THEN "reading" ELSE phase

\* void cblu_docr_free(d), on props
cblu_docr_free_props ==
    /\ phase \in {"reading", "read"}
    /\ UNCHANGED <<lifeVars, props, given, builder, saved>>
    /\ res' = [op |-> "free"]
    /\ phase' = "saved"

\* Each getter below is the function on: d, whether the reader pointer is
\* non-null; p, the reader's props; key, NULL or a key; has_out, whether the
\* output pointer is non-null; out, what the output held before the call.  It
\* yields what the call returns and what the output holds after it.
Result(ret, out) == [ret |-> ret, out |-> out]

\* bool cblu_docr_has(d, key)
get_has(d, p, key) == d /\ key # NULL /\ FLDict_Get(p, key).t # "undefined"

\* A cblu_docr_get_i64 that clears *out when the value is no number.
get_i64_clearing(d, p, key, has_out, out, any) ==
    IF ~d \/ key = NULL \/ ~has_out THEN Result(FALSE, out)
    ELSE LET v == FLDict_Get(p, key) IN
         IF ~fl_is_number(v) THEN Result(FALSE, 0)
         ELSE Result(TRUE, FLValue_AsInt(v, any))

\* bool cblu_docr_get_i64(d, key, out)
get_i64(d, p, key, has_out, out, any) ==
    IF ~d \/ key = NULL \/ ~has_out THEN Result(FALSE, out)
    ELSE LET v == FLDict_Get(p, key) IN
         IF ~fl_is_number(v) THEN Result(FALSE, out)
         ELSE Result(TRUE, FLValue_AsInt(v, any))

\* bool cblu_docr_get_u64(d, key, out)
get_u64(d, p, key, has_out, out, any) ==
    IF ~d \/ key = NULL \/ ~has_out THEN Result(FALSE, out)
    ELSE LET v == FLDict_Get(p, key) IN
         IF ~fl_is_number(v) THEN Result(FALSE, out)
         ELSE Result(TRUE, FLValue_AsUnsigned(v, any))

\* bool cblu_docr_get_f64(d, key, out)
get_f64(d, p, key, has_out, out) ==
    IF ~d \/ key = NULL \/ ~has_out THEN Result(FALSE, out)
    ELSE LET v == FLDict_Get(p, key) IN
         IF ~fl_is_number(v) THEN Result(FALSE, out)
         ELSE Result(TRUE, FLValue_AsDouble(v))

\* bool cblu_docr_get_bool(d, key, out)
get_bool(d, p, key, has_out, out, any) ==
    IF ~d \/ key = NULL \/ ~has_out THEN Result(FALSE, out)
    ELSE LET v == FLDict_Get(p, key) IN
         IF v.t = "undefined" THEN Result(FALSE, out)
         ELSE IF v.t = "boolean" \/ v.t = "number"
         THEN Result(TRUE, FLValue_AsBool(v, any))
         ELSE Result(FALSE, out)

\* A cblu_docr_get_str that takes dst_size, not dst_size - 1, for the most it
\* copies: no room is kept for the terminator.
get_str_unterminated(d, p, key, has_dst, dst, dst_size) ==
    IF ~d \/ key = NULL \/ ~has_dst \/ dst_size = 0 THEN Result(0, dst)
    ELSE LET v == FLDict_Get(p, key) IN
         IF ~fl_is_string(v) THEN Result(0, [dst EXCEPT ![1] = NUL])
         ELSE LET n == IF Len(v.s) < dst_size THEN Len(v.s) ELSE dst_size IN
              Result(n, [i \in 1..dst_size |->
                            IF i <= n THEN v.s[i] ELSE IF i = n + 1 THEN NUL ELSE dst[i]])

\* size_t cblu_docr_get_str(d, key, dst, dst_size).  dst is the buffer of
\* dst_size characters; dst[i] of the code is dst[i + 1] here.  The FLString
\* of a string value has a non-null buf.
get_str(d, p, key, has_dst, dst, dst_size) ==
    IF ~d \/ key = NULL \/ ~has_dst \/ dst_size = 0 THEN Result(0, dst)
    ELSE LET v == FLDict_Get(p, key) IN
         IF ~fl_is_string(v) THEN Result(0, [dst EXCEPT ![1] = NUL])
         ELSE LET n == IF Len(v.s) < dst_size - 1 THEN Len(v.s) ELSE dst_size - 1 IN
              Result(n, [i \in 1..dst_size |->
                            IF i <= n THEN v.s[i] ELSE IF i = n + 1 THEN NUL ELSE dst[i]])

\* An array getter without the cap of lines 306 and 320.
CopiedAll(a, maxn) == Len(a)

\* An array getter whose loop stops one element early.
CopiedOneLess(a, maxn) == IF Min(Len(a), maxn) > 0 THEN Min(Len(a), maxn) - 1 ELSE 0

\* Lines 305-306 and 319-320: the elements an array getter copies.
Copied(a, maxn) == Min(Len(a), maxn)

\* size_t cblu_docr_get_f64_array(d, key, out, maxn).  out is the buffer of
\* maxn elements.
get_f64_array(d, p, key, has_out, out, maxn) ==
    IF ~d \/ key = NULL \/ ~has_out \/ maxn = 0 THEN Result(0, out)
    ELSE LET v == FLDict_Get(p, key) IN
         IF v.t # "array" THEN Result(0, out)
         ELSE LET a == v.items
                  n == Copied(a, maxn)
              IN Result(n, [i \in 1..maxn |->
                    IF i > n THEN out[i]
                    ELSE IF fl_is_number(a[i]) THEN FLValue_AsDouble(a[i]) ELSE 0])

\* size_t cblu_docr_get_i64_array(d, key, out, maxn)
get_i64_array(d, p, key, has_out, out, maxn, any) ==
    IF ~d \/ key = NULL \/ ~has_out \/ maxn = 0 THEN Result(0, out)
    ELSE LET v == FLDict_Get(p, key) IN
         IF v.t # "array" THEN Result(0, out)
         ELSE LET a == v.items
                  n == Copied(a, maxn)
              IN Result(n, [i \in 1..maxn |->
                    IF i > n THEN out[i]
                    ELSE IF fl_is_number(a[i]) THEN FLValue_AsInt(a[i], any) ELSE 0])

\* What cblu_docr_get_blob returns, and what dst and contentTypeDst hold after.
BlobResult(ret, out, ctOut) == [ret |-> ret, out |-> out, ctOut |-> ctOut]

\* Lines 334-343: whether the build's accessor yields the blob of value v.
\* api is the accessor the preprocessor finds defined as a macro,
\* FLValue_AsBlob or FLValue_GetBlob, or "none": then line 340 is compiled and
\* blob stays NULL.  An accessor yields NULL for a value that is no blob.
BlobApis == {"FLValue_AsBlob", "FLValue_GetBlob", "none"}
BlobFound(v, api) == api # "none" /\ v.t = "blob"

\* size_t cblu_docr_get_blob(d, key, dst, dstSize, contentTypeDst, ctDstSize).
\* dst and ctDst are the two buffers before the call (has_ct: contentTypeDst
\* is non-null); contentOk is whether CBLBlob_Content yields the content.  A
\* content type read back without buf leaves contentTypeDst[0] = 0, as the
\* empty content type does.
get_blob(d, p, key, has_dst, dst, dstSize, has_ct, ctDst, ctDstSize, api, contentOk) ==
    IF ~d \/ key = NULL \/ ~has_dst \/ dstSize = 0 THEN BlobResult(0, dst, ctDst)
    ELSE LET v == FLDict_Get(p, key) IN
         IF ~BlobFound(v, api) THEN BlobResult(0, dst, ctDst)
         ELSE LET n == IF Len(v.ct) < ctDstSize - 1 THEN Len(v.ct) ELSE ctDstSize - 1
                  ctOut == IF has_ct /\ ctDstSize > 0
                           THEN [i \in 1..ctDstSize |->
                                    IF i <= n THEN v.ct[i]
                                    ELSE IF i = n + 1 THEN NUL ELSE ctDst[i]]
                           ELSE ctDst
                  nCopy == IF Len(v.data) < dstSize THEN Len(v.data) ELSE dstSize
              IN IF ~contentOk \/ Len(v.data) = 0 THEN BlobResult(0, dst, ctOut)
                 ELSE BlobResult(nCopy,
                                 [i \in 1..dstSize |-> IF i <= nCopy THEN v.data[i] ELSE dst[i]],
                                 ctOut)

\* A getter call on the reader: its name, arguments, result and output.  A
\* getter leaves the reader and the document as they are, so one call is
\* followed on each reader: the reader got ("reading"), then called ("read").
Reading == phase = "reading"

Got(op, d, key, has_out, cap, r) ==
    /\ UNCHANGED <<lifeVars, props, given, builder, saved>>
    /\ phase' = "read"
    /\ res' = [op |-> op, d |-> d, key |-> key, has_out |-> has_out, cap |-> cap,
               ret |-> r.ret, out |-> r.out]

\* A caller's buffer of cap elements before the call wrote it.
Buffer(cap) == [i \in 1..cap |-> Garbage]

cblu_docr_has(d, key) ==
    /\ Reading
    /\ Got("has", d, key, FALSE, 0, Result(get_has(d, saved, key), FALSE))

cblu_docr_get_i64_props(d, key, has_out, out, any) ==
    /\ Reading
    /\ Got("get_i64", d, key, has_out, 1, get_i64(d, saved, key, has_out, out, any))

cblu_docr_get_u64(d, key, has_out, out, any) ==
    /\ Reading
    /\ Got("get_u64", d, key, has_out, 1, get_u64(d, saved, key, has_out, out, any))

cblu_docr_get_f64(d, key, has_out, out) ==
    /\ Reading
    /\ Got("get_f64", d, key, has_out, 1, get_f64(d, saved, key, has_out, out))

cblu_docr_get_bool(d, key, has_out, out, any) ==
    /\ Reading
    /\ Got("get_bool", d, key, has_out, 1, get_bool(d, saved, key, has_out, out, any))

cblu_docr_get_str(d, key, has_dst, dst_size) ==
    /\ Reading
    /\ Got("get_str", d, key, has_dst, dst_size,
           get_str(d, saved, key, has_dst, Buffer(dst_size), dst_size))

cblu_docr_get_f64_array(d, key, has_out, maxn) ==
    /\ Reading
    /\ Got("get_f64_array", d, key, has_out, maxn,
           get_f64_array(d, saved, key, has_out, Buffer(maxn), maxn))

cblu_docr_get_i64_array(d, key, has_out, maxn, any) ==
    /\ Reading
    /\ Got("get_i64_array", d, key, has_out, maxn,
           get_i64_array(d, saved, key, has_out, Buffer(maxn), maxn, any))

cblu_docr_get_blob(d, key, has_dst, dstSize, has_ct, ctDstSize, api, contentOk) ==
    LET r == get_blob(d, saved, key, has_dst, Buffer(dstSize), dstSize,
                      has_ct, Buffer(ctDstSize), ctDstSize, api, contentOk)
    IN
    /\ Reading
    /\ UNCHANGED <<lifeVars, props, given, builder, saved>>
    /\ phase' = "read"
    /\ res' = [op |-> "get_blob", d |-> d, key |-> key, has_out |-> has_dst,
               cap |-> dstSize, ret |-> r.ret, out |-> r.out,
               has_ct |-> has_ct, ctCap |-> ctDstSize, ctOut |-> r.ctOut,
               api |-> api, contentOk |-> contentOk]

\* ------------------------------------------------------- the typed values
\* After cblu_docw_begin on a session of the opened handle: the writer's props
\* are the new document's, empty.
InitVal ==
    /\ InitLife
    /\ props = [k \in Keys |-> FLUndefined]
    /\ given = [k \in Keys |-> NoGiven]
    /\ builder = [b \in Builders |-> NoBuilder]
    /\ saved = [k \in Keys |-> FLUndefined]
    /\ phase = "writing"
    /\ res = [op |-> "none"]

KeyArgs == {NULL} \cup Keys
ArrArgs == {NULL} \cup Builders

\* The strings and arrays a call is given: behind a null pointer there is
\* nothing to choose.
StrArgs(has_s)    == IF has_s THEN Strs ELSE {<<>>}
ArrOf(has_a, n, S) == IF has_a THEN [1..n -> S] ELSE {[i \in 1..n |-> 0]}

\* What a build leaves for a double converted out of the signed range.
AnyInt == {INT64_MIN, INT64_MAX}

\* The pointers of a getter call: all non-null, or one of them null.
PtrArgs == {a \in BOOLEAN \X KeyArgs \X BOOLEAN : (a[1] /\ a[2] # NULL) \/ (a[1] /\ a[3]) \/ (a[2] # NULL /\ a[3])}

\* The cblu_docr_get_blob calls followed, <<pointers, dstSize, has_ct,
\* ctDstSize, api, contentOk>>: every call that reaches the lookup of line 333
\* (no size behind a null contentTypeDst, no content fetch in a build without
\* accessor), and one call for each reason line 329 has to turn a call away.
BlobCalls ==
    {c \in PtrArgs \X (0..MaxStr) \X BOOLEAN \X (0..(MaxStr + 1)) \X BlobApis \X BOOLEAN :
        LET a == c[1]
            nullPtr == ~a[1] \/ a[2] = NULL \/ ~a[3]
        IN /\ ~c[3] => c[4] = 0
           /\ c[5] = "none" => c[6]
           /\ nullPtr => (c[2] = MaxStr /\ c[3] /\ c[4] = MaxStr + 1 /\ c[6])
           /\ c[2] = 0 => (c[3] /\ c[4] = MaxStr + 1 /\ c[6])}

\* The cblu_docw_set_blob calls followed, <<d, key, has_data, data, size,
\* has_ct, contentType, createOk>>: every call that stores a blob (data of
\* size bytes, or no data and size 0), and one call for each way to fail: a
\* null writer, a null key, null data with a size, the engine's refusal.
SetBlobCalls ==
    {c \in BOOLEAN \X KeyArgs \X BOOLEAN \X Strs \X (0..MaxStr) \X BOOLEAN \X Strs \X BOOLEAN :
        LET fails == ~c[1] \/ c[2] = NULL \/ (~c[3] /\ c[5] > 0) \/ ~c[8]
            one   == (c[1] /\ c[2] # NULL /\ c[8]) \/ (c[1] /\ c[2] # NULL /\ c[3])
                     \/ (c[1] /\ c[3] /\ c[8]) \/ (c[2] # NULL /\ c[3] /\ c[8])
        IN /\ c[4] \in StrArgs(c[3]) /\ c[7] \in StrArgs(c[6])
           /\ c[3] => c[5] = Len(c[4])
           /\ fails => (one /\ ~c[6] /\ (c[3] => c[4] = <<>>))}

NextWrite ==
    \/ \E d \in BOOLEAN, k \in KeyArgs, v \in Int64 : cblu_docw_set_i64_props(d, k, v)
    \/ \E d \in BOOLEAN, k \in KeyArgs, v \in UInt64 : cblu_docw_set_u64(d, k, v)
    \/ \E d \in BOOLEAN, k \in KeyArgs, v \in Doubles : cblu_docw_set_f64(d, k, v)
    \/ \E d \in BOOLEAN, k \in KeyArgs, has_s \in BOOLEAN : \E s \in StrArgs(has_s) : cblu_docw_set_str(d, k, has_s, s)
    \/ \E d \in BOOLEAN, k \in KeyArgs, v \in BOOLEAN : cblu_docw_set_bool(d, k, v)
    \/ \E c \in SetBlobCalls :
          cblu_docw_set_blob(c[1], c[2], c[3], c[4], c[5], c[6], c[7], c[8])
    \/ \E d \in BOOLEAN, k \in KeyArgs, has_a \in BOOLEAN, n \in 0..MaxArr :
          \E a \in ArrOf(has_a, n, Doubles) : cblu_docw_set_f64_array(d, k, has_a, a, n)
    \/ \E d \in BOOLEAN, k \in KeyArgs, has_a \in BOOLEAN, n \in 0..MaxArr :
          \E a \in ArrOf(has_a, n, Int64) : cblu_docw_set_i64_array(d, k, has_a, a, n)
    \/ \E d \in BOOLEAN, k \in KeyArgs : cblu_docw_begin_array(d, k)
    \/ \E arr \in ArrArgs, v \in Int64 : cblu_docw_array_append_i64(arr, v)
    \/ \E arr \in ArrArgs, v \in UInt64 : cblu_docw_array_append_u64(arr, v)
    \/ \E arr \in ArrArgs, v \in Doubles : cblu_docw_array_append_f64(arr, v)
    \/ \E arr \in ArrArgs, v \in BOOLEAN : cblu_docw_array_append_bool(arr, v)
    \/ \E arr \in ArrArgs, has_s \in BOOLEAN : \E s \in StrArgs(has_s) : cblu_docw_array_append_str(arr, has_s, s)
    \/ \E arr \in ArrArgs : cblu_docw_end_array(arr)
    \/ \E d \in BOOLEAN, ok \in BOOLEAN : cblu_docw_save_props(d, ok)

NextRead ==
    \/ cblu_docr_get_props
    \/ cblu_docr_free_props
    \/ \E d \in BOOLEAN, k \in KeyArgs : cblu_docr_has(d, k)
    \/ \E a \in PtrArgs, out \in {INT64_MIN, 0}, any \in AnyInt :
          cblu_docr_get_i64_props(a[1], a[2], a[3], out, any)
    \/ \E a \in PtrArgs, out \in {0, Mod - 1}, any \in AnyInt :
          cblu_docr_get_u64(a[1], a[2], a[3], out, any)
    \/ \E a \in PtrArgs, out \in {-3, 0} : cblu_docr_get_f64(a[1], a[2], a[3], out)
    \/ \E a \in PtrArgs, out \in BOOLEAN, any \in AnyInt :
          cblu_docr_get_bool(a[1], a[2], a[3], out, any)
    \/ \E a \in PtrArgs, n \in 0..(MaxStr + 1) : cblu_docr_get_str(a[1], a[2], a[3], n)
    \/ \E a \in PtrArgs, n \in 0..MaxArr : cblu_docr_get_f64_array(a[1], a[2], a[3], n)
    \/ \E a \in PtrArgs, n \in 0..MaxArr, any \in AnyInt :
          cblu_docr_get_i64_array(a[1], a[2], a[3], n, any)
    \/ \E c \in BlobCalls :
          cblu_docr_get_blob(c[1][1], c[1][2], c[1][3], c[2], c[3], c[4], c[5], c[6])

NextVal == NextWrite \/ NextRead

\* One document's typed fields: written, saved, read back.
SpecVal == InitVal /\ [][NextVal]_vars

\* ================================================================ claims

\* C1.  When a transactional session is ended with commit = false, no document
\* saved through it is in its collection any more; when it is ended with
\* commit = true (the engine agreeing), every document is where it was, the
\* session's saves with them.
C1_RollbackRestores ==
    [][\A s \in Sessions :
         (sess[s].st = "live" /\ sess[s].began = "txn" /\ sess'[s].st = "freed"
          /\ DbUsable(eng', sess[s].db))
         => IF sess'[s].endReq = "rollback"
            THEN \A w \in Writers :
                    (wr[w].core = s /\ wr[w].ret = "true") => working'[sess[s].coll].w # w
            ELSE sess'[s].endLog = "" => working' = working]_vars

\* C2.  A save that returns true on a writer of a session begun without a
\* transaction is committed to the collection when it returns.
C2_PlainSaveCommitted ==
    [][\A w \in Writers :
         (wr[w].st = "live" /\ wr'[w].ret = "true" /\ sess[wr[w].core].began = "plain")
         => committed'[sess[wr[w].core].coll] = [w |-> w, v |-> wr[w].val]]_vars

\* C3.  What a live reader returns is the document a save that returned true
\* stored, as that writer held it at its save, and it is still the document
\* the reader was given by cblu_docr_get, whatever was saved since.
C3_ReaderSnapshot ==
    \A r \in Readers :
        rd[r].st = "live" =>
            /\ DocProps(r) = rd[r].got
            /\ rd[r].got.w \in Writers
            /\ wr[rd[r].got.w].ret = "true"
            /\ wr[rd[r].got.w].val = rd[r].got.v
            /\ docr_get_i64(r, 0).out = rd[r].got.v

\* A reader is live and the collection's document is no longer the one the
\* reader holds: a later save replaced it.
C3_Witness ==
    \E r \in Readers :
        /\ rd[r].st = "live"
        /\ working[sess[rd[r].core].coll] # rd[r].got
        /\ working[sess[rd[r].core].coll].v # rd[r].got.v

\* C4.  cblu_close on a handle already closed changes nothing in the engine
\* and touches no freed memory.
C4_CloseTwiceNoOp ==
    [][(last'.op = "close" /\ last'.arg.st = "freed" /\ hnd' # hnd)
       => (eng' = eng /\ collHeld' = collHeld /\ ~hist'.touchedFreed)]_vars

\* C5.  Closing a handle of cblu_open_collection while the handle it came
\* from is live leaves the database open, and closing each handle once
\* releases the database once.
C5_DerivedCloseKeepsDb ==
    /\ (last.op = "close" /\ last.arg.st = "live" /\ last.arg.derived
        /\ \E b \in Handles : hnd[b].st = "live" /\ ~hnd[b].derived)
       => eng.st = "open"
    /\ ~hist.touchedFreed => eng.releases <= 1

\* What cblu_open leaves when it returns true: the handle in *out_db, live,
\* holding the database and the default collection, both acquired by the call.
OpenedAll ==
    /\ last'.ret = "true"
    /\ slot' \in Handles /\ hnd[slot'].st = "unalloc" /\ hnd'[slot'] = OpenedHandle
    /\ eng'.st = "open" /\ eng'.refs = eng.refs + 1
    /\ collHeld' = [collHeld EXCEPT ![DefColl] = @ + 1]

\* What cblu_open leaves when it returns false after it has cleared *out_db:
\* no handle, and every engine reference the call acquired released again, the
\* database closed if the call opened it.
OpenedNothing ==
    /\ last'.ret = "false"
    /\ slot' = NULL
    /\ hnd' = hnd /\ collHeld' = collHeld
    /\ eng'.refs = eng.refs
    /\ eng' = eng \/ (eng.st = "none" /\ eng'.st = "closed" /\ eng'.closes = eng.closes + 1
                                    /\ eng'.releases = eng.releases + 1)

\* C6 as stated: every cblu_open given an out_db ends in one of the two.
C6_OpenAllOrNothing ==
    [][(last'.op = "open" /\ last'.arg.out) => (OpenedAll \/ OpenedNothing)]_vars

\* C6 as amended: that holds of every cblu_open given an out_db and a
\* db_name; a call with a null db_name (or a null out_db) returns false,
\* acquires nothing and leaves the caller's *out_db as it was.
C6_OpenAllOrNothingNamed ==
    [][last'.op = "open" =>
         IF last'.arg.out /\ last'.arg.name # NULL
         THEN OpenedAll \/ OpenedNothing
         ELSE /\ last'.ret = "false" /\ slot' = slot
              /\ hnd' = hnd /\ eng' = eng /\ collHeld' = collHeld]_vars

\* cblu_open returned false for the missing default collection, the database
\* it had opened closed and released.
C6_Witness ==
    /\ last.op = "open" /\ last.ret = "false"
    /\ last.log = "CBL default collection failed"
    /\ eng.st = "closed" /\ eng.closes = 1 /\ eng.releases = 1 /\ eng.refs = 0
    /\ slot = NULL

\* C7.  A session that was ended is freed; CBLDatabase_EndTransaction was
\* called for it once, with the outcome asked for, when it began a
\* transaction, and not at all when it did not; no call is made for a session
\* still live.
C7_EndsTxnOnce ==
    \A s \in Sessions :
        /\ sess[s].st = "live" => (sess[s].endCalls = 0 /\ sess[s].endReq = "none")
        /\ sess[s].endReq # "none" =>
              /\ sess[s].st = "freed"
              /\ IF sess[s].began = "txn"
                 THEN sess[s].endCalls = 1 /\ sess[s].endArg = sess[s].endReq
                 ELSE sess[s].endCalls = 0 /\ sess[s].endArg = "none"

\* A transactional session was ended with commit = false, the engine reported
\* the end failed, and a session without transaction was ended too.
C7_Witness ==
    /\ \E s \in Sessions : /\ sess[s].st = "freed" /\ sess[s].began = "txn"
                           /\ sess[s].endReq = "rollback"
                           /\ sess[s].endLog = "CBL end txn failed"
    /\ \E s \in Sessions : sess[s].st = "freed" /\ sess[s].began = "plain"

\* C8.  When the engine reports that ending the transaction failed, the call
\* ending the session returns a failure status.
C8_EndFailureReturned ==
    \A s \in Sessions :
        sess[s].endLog = "CBL end txn failed" => sess[s].endRet = "false"

\* C9.  A finalized writer's document handle was released once and a live
\* writer's not at all; cblu_docw_save returns the engine's outcome; a save
\* that failed and a cblu_docw_free leave every collection's documents alone.
C9_WriterReleasedOnce ==
    /\ [](\A w \in Writers :
            /\ wr[w].st = "live" => wr[w].rel = 0
            /\ wr[w].st = "freed" => wr[w].rel = 1
            /\ wr[w].engine = "ok" => wr[w].ret = "true"
            /\ wr[w].engine = "failed" => wr[w].ret = "false"
            /\ wr[w].ret = "void" => wr[w].engine = "none")
    /\ [][\A w \in Writers :
            (wr[w].st = "live" /\ wr'[w].st = "freed" /\ wr'[w].ret # "true")
            => (working' = working /\ committed' = committed)]_vars

\* One writer's save failed, another was freed unsaved, and both document
\* handles are released.
C9_Witness ==
    /\ \E w \in Writers : wr[w].st = "freed" /\ wr[w].engine = "failed" /\ wr[w].rel = 1
    /\ \E w \in Writers : wr[w].st = "freed" /\ wr[w].ret = "void" /\ wr[w].rel = 1

\* What the getter of the matching type returns for key k of the saved
\* properties p, against what the writer gave the key last: every output
\* pointer non-null, the buffer large enough for the whole value, whatever the
\* output held before.  A null string is the empty string and a null array
\* pointer is an array of zeros.  An array of a builder is read with
\* get_i64_array when every append was append_i64 and with get_f64_array when
\* every append was append_f64; the reader has no getter for the elements of
\* the other appends.
Zeros(n) == [i \in 1..n |-> 0]
AllOf(calls, kind) == \A i \in 1..Len(calls) : calls[i].kind = kind
Args(calls) == [i \in 1..Len(calls) |-> calls[i].v]

I64ArrayBack(p, k, a) ==
    \A maxn \in Len(a)..MaxArr, any \in AnyInt :
        LET r == get_i64_array(TRUE, p, k, TRUE, Buffer(maxn), maxn, any) IN
        r.ret = Len(a) /\ SubSeq(r.out, 1, Len(a)) = a

F64ArrayBack(p, k, a) ==
    \A maxn \in Len(a)..MaxArr :
        LET r == get_f64_array(TRUE, p, k, TRUE, Buffer(maxn), maxn) IN
        r.ret = Len(a) /\ SubSeq(r.out, 1, Len(a)) = a

StrBack(p, k, s) ==
    \A cap \in (Len(s) + 1)..(MaxStr + 1) :
        LET r == get_str(TRUE, p, k, TRUE, Buffer(cap), cap) IN
        r.ret = Len(s) /\ SubSeq(r.out, 1, Len(s)) = s /\ r.out[Len(s) + 1] = NUL

RoundTrip(p, k) ==
    LET g == given[k] IN
    CASE g.kind = "i64" ->
           \A o \in Int64, any \in AnyInt : get_i64(TRUE, p, k, TRUE, o, any) = Result(TRUE, g.v)
      [] g.kind = "u64" ->
           \A o \in UInt64, any \in AnyInt : get_u64(TRUE, p, k, TRUE, o, any) = Result(TRUE, g.v)
      [] g.kind = "f64" ->
           \A o \in Doubles : get_f64(TRUE, p, k, TRUE, o) = Result(TRUE, g.v)
      [] g.kind = "bool" ->
           \A o \in BOOLEAN, any \in AnyInt : get_bool(TRUE, p, k, TRUE, o, any) = Result(TRUE, g.v)
      [] g.kind = "str" -> StrBack(p, k, IF g.has_s THEN g.s ELSE <<>>)
      [] g.kind = "i64_array" -> I64ArrayBack(p, k, IF g.has_a THEN g.a ELSE Zeros(g.n))
      [] g.kind = "f64_array" -> F64ArrayBack(p, k, IF g.has_a THEN g.a ELSE Zeros(g.n))
      [] g.kind = "builder" ->
           LET calls == builder[g.arr].calls IN
           /\ AllOf(calls, "i64") => I64ArrayBack(p, k, Args(calls))
           /\ AllOf(calls, "f64") => F64ArrayBack(p, k, Args(calls))
      [] OTHER -> TRUE

\* C10.  Once cblu_docw_save has returned true, the getter of the matching
\* type, on a reader of the saved document, returns true (for a string or an
\* array: its full length) and yields the value each key was last given by
\* set_i64, set_u64, set_f64, set_str, set_bool, set_i64_array, set_f64_array
\* or the appends of an array builder, the elements of an array in the order
\* given or appended; and a call made returned exactly that.
C10_RoundTrip ==
    /\ phase \in {"saved", "reading", "read"} => \A k \in Keys : RoundTrip(saved, k)
    /\ (phase = "read" /\ res.op = "get_u64" /\ res.d /\ res.has_out /\ res.key # NULL
        /\ given[res.key].kind = "u64")
       => (res.ret /\ res.out = given[res.key].v)

\* cblu_docr_get_u64 returned a value above INT64_MAX that set_u64 had stored.
C10_Witness ==
    /\ phase = "read" /\ res.op = "get_u64" /\ res.ret
    /\ res.out > INT64_MAX
    /\ \E k \in Keys : given[k].kind = "u64" /\ given[k].v = res.out

\* A cblu_docr_get_blob call that names a key last given a blob of content
\* data and content type ct, with every pointer non-null but perhaps
\* contentTypeDst, a capacity of 1 or more, and the engine yielding the
\* content.
BlobCall(key, data, ct) ==
    /\ phase = "read" /\ res.op = "get_blob"
    /\ res.d /\ res.key = key /\ res.has_out /\ res.cap >= 1 /\ res.contentOk
    /\ given[key].kind = "blob"
    /\ data = SubSeq(given[key].data, 1, given[key].size)
    /\ ct = (IF given[key].has_ct THEN given[key].ct ELSE OctetStream)

\* The call returned the first min(n, c) bytes of data in dst, the rest of dst
\* as it was, and the content type, cut to the capacity less one and
\* NUL-terminated, in a contentTypeDst of capacity 1 or more.
BlobCopied(data, ct) ==
    LET nCopy == Min(Len(data), res.cap)
        m     == Min(Len(ct), res.ctCap - 1)
    IN /\ res.ret = nCopy
       /\ \A i \in 1..res.cap : res.out[i] = (IF i <= nCopy THEN data[i] ELSE Garbage)
       /\ (res.has_ct /\ res.ctCap >= 1) =>
             \A i \in 1..res.ctCap :
                res.ctOut[i] = (IF i <= m THEN ct[i] ELSE IF i = m + 1 THEN NUL ELSE Garbage)

\* C11.  A blob of n > 0 bytes stored by cblu_docw_set_blob and saved is read
\* by cblu_docr_get_blob with a capacity c >= 1: the call returns min(n, c),
\* has copied the first min(n, c) bytes, and has filled a content-type buffer
\* with the stored content type cut to its capacity less one, NUL-terminated.
C11_BlobRead ==
    \A k \in Keys, data \in Strs, ct \in Strs :
        (BlobCall(k, data, ct) /\ Len(data) > 0) => BlobCopied(data, ct)

\* What a scalar getter called with reader d, key and output pointer finds:
\* the value of the key, when the three are non-null and the key is in the
\* document.
Found(d, p, key, has_out) ==
    IF d /\ key # NULL /\ has_out THEN FLDict_Get(p, key) ELSE FLUndefined

\* The call returned true exactly when it was to (ok), gave the value then, and
\* left in the output what it held before (o) otherwise.
Scalar(r, ok, value, o) == r.ret = ok /\ r.out = (IF ok THEN value ELSE o)

ScalarGetters(p, d, key, has_out, any) ==
    LET v    == Found(d, p, key, has_out)
        num  == v.t = "number"
        bool == v.t = "boolean" \/ v.t = "number"
    IN /\ \A o \in Int64 :
            Scalar(get_i64(d, p, key, has_out, o, any), num, FLValue_AsInt(v, any), o)
       /\ \A o \in UInt64 :
            Scalar(get_u64(d, p, key, has_out, o, any), num, FLValue_AsUnsigned(v, any), o)
       /\ \A o \in Doubles :
            Scalar(get_f64(d, p, key, has_out, o), num, FLValue_AsDouble(v), o)
       /\ \A o \in BOOLEAN :
            Scalar(get_bool(d, p, key, has_out, o, any), bool, FLValue_AsBool(v, any), o)

ScalarOps == {"get_i64", "get_u64", "get_f64", "get_bool"}

\* C12.  cblu_docr_get_i64, get_u64, get_f64 and get_bool return true and
\* write *out only when the key is in the document and its value is a number
\* (for get_bool: a boolean or a number); otherwise they return false and *out
\* holds what it held before the call.  So of every document saved (a reader
\* holds the document as it was saved) and every call, and so the call a
\* reader made returned.
C12_ScalarGetters ==
    /\ phase = "saved" =>
          \A d \in BOOLEAN, key \in KeyArgs, has_out \in BOOLEAN, any \in AnyInt :
             ScalarGetters(saved, d, key, has_out, any)
    /\ (phase = "read" /\ res.op \in ScalarOps) =>
          LET v == Found(res.d, saved, res.key, res.has_out) IN
          res.ret = (v.t = "number" \/ (res.op = "get_bool" /\ v.t = "boolean"))

\* cblu_docr_get_i64 returned false for a key that holds a string, and the
\* output still holds the caller's INT64_MIN.
C12_Witness ==
    /\ phase = "read" /\ res.op = "get_i64"
    /\ res.d /\ res.key # NULL /\ res.has_out
    /\ saved[res.key].t = "string"
    /\ ~res.ret /\ res.out = INT64_MIN

\* Key k of p is absent or holds a value of another type than the getter
\* takes; the reader, the key and every output pointer are non-null and every
\* capacity is 1 or more.  Then the getter returns false or 0 and leaves its
\* outputs as they were.
MismatchUntouched(p, k) ==
    LET v == FLDict_Get(p, k) IN
    /\ v.t # "number" =>
          /\ \A o \in Int64, any \in AnyInt : get_i64(TRUE, p, k, TRUE, o, any) = Result(FALSE, o)
          /\ \A o \in UInt64, any \in AnyInt : get_u64(TRUE, p, k, TRUE, o, any) = Result(FALSE, o)
          /\ \A o \in Doubles : get_f64(TRUE, p, k, TRUE, o) = Result(FALSE, o)
    /\ v.t \notin {"boolean", "number"} =>
          \A o \in BOOLEAN, any \in AnyInt : get_bool(TRUE, p, k, TRUE, o, any) = Result(FALSE, o)
    /\ v.t # "string" =>
          \A cap \in 1..(MaxStr + 1) :
             get_str(TRUE, p, k, TRUE, Buffer(cap), cap) = Result(0, Buffer(cap))
    /\ v.t # "array" =>
          \A maxn \in 1..MaxArr, any \in AnyInt :
             /\ get_f64_array(TRUE, p, k, TRUE, Buffer(maxn), maxn) = Result(0, Buffer(maxn))
             /\ get_i64_array(TRUE, p, k, TRUE, Buffer(maxn), maxn, any) = Result(0, Buffer(maxn))
    /\ v.t # "blob" =>
          \A n \in 1..MaxStr, m \in 1..(MaxStr + 1), api \in BlobApis, ok \in BOOLEAN :
             get_blob(TRUE, p, k, TRUE, Buffer(n), n, TRUE, Buffer(m), m, api, ok)
                = BlobResult(0, Buffer(n), Buffer(m))

\* C13.  Every typed getter, cblu_docr_get_str, the array getters and
\* cblu_docr_get_blob with its content-type buffer among them, either copies
\* the value of the matching type or signals it absent or mismatched, by
\* false or a zero count, and then has left every output location as it was:
\* so for a key that is absent or of another type, and so whenever
\* cblu_docr_get_blob returns the zero count.
C13_MismatchUntouched ==
    /\ phase = "saved" => \A k \in Keys : MismatchUntouched(saved, k)
    /\ (phase = "read" /\ res.op = "get_blob" /\ res.ret = 0) =>
          (res.out = Buffer(res.cap) /\ res.ctOut = Buffer(res.ctCap))

\* r is what cblu_docr_get_str gave for the string str and a dst of capacity
\* N: min(L, N - 1) returned, that many characters of str from its start in
\* dst, the NUL behind them (index min(L, N - 1) of the code), every later
\* element of dst as it was, and dst still N elements long.
StrRead(r, str, N) ==
    LET n == Min(Len(str), N - 1) IN
    /\ r.ret = n
    /\ DOMAIN r.out = 1..N
    /\ \A i \in 1..N :
          r.out[i] = (IF i <= n THEN str[i] ELSE IF i = n + 1 THEN NUL ELSE Garbage)

\* C14.  For a stored string of length L and a capacity N >= 1,
\* cblu_docr_get_str copies the first min(L, N - 1) characters, writes the NUL
\* at index min(L, N - 1), writes no index >= N and returns min(L, N - 1): so
\* of every string saved and every capacity, and so the call a reader made.
C14_StrCopy ==
    /\ phase = "saved" =>
          \A k \in Keys :
             saved[k].t = "string" =>
                \A N \in 1..(MaxStr + 2) :
                   StrRead(get_str(TRUE, saved, k, TRUE, Buffer(N), N), saved[k].s, N)
    /\ (phase = "read" /\ res.op = "get_str" /\ res.d /\ res.key # NULL /\ res.has_out
        /\ res.cap >= 1 /\ saved[res.key].t = "string")
       => StrRead(res, saved[res.key].s, res.cap)

\* cblu_docr_get_str cut a string of two characters to the one that fits a
\* capacity of two.
C14_Witness ==
    /\ phase = "read" /\ res.op = "get_str" /\ res.d /\ res.key # NULL /\ res.has_out
    /\ saved[res.key].t = "string" /\ Len(saved[res.key].s) = 2
    /\ res.cap = 2 /\ res.ret = 1
    /\ res.out = <<saved[res.key].s[1], NUL>>

\* C15.  cblu_docr_get_str NUL-terminates dst on every call given a dst of
\* capacity 1 or more; a call that fails (null reader, null key, key absent,
\* value not a string) returns 0 and leaves the empty string in dst.
C15_StrTerminated ==
    (phase = "read" /\ res.op = "get_str" /\ res.has_out /\ res.cap >= 1) =>
       LET fails == IF res.d /\ res.key # NULL
                    THEN saved[res.key].t # "string" ELSE TRUE
       IN /\ \E i \in 1..res.cap : res.out[i] = NUL
          /\ fails => (res.ret = 0 /\ res.out[1] = NUL)

\* r is what an array getter gave for the value v and a buffer of maxn
\* elements: 0 and the buffer as it was when v is no array (or absent);
\* otherwise min(storedCount, maxn) returned, that many elements from the
\* start of the array in its order, Value(item) for a number and 0 for any
\* other item, and the buffer behind them as it was.
ArrayRead(r, v, maxn, Value(_)) ==
    IF v.t # "array" THEN r.ret = 0 /\ r.out = Buffer(maxn)
    ELSE LET n == Min(Len(v.items), maxn) IN
         /\ r.ret = n
         /\ DOMAIN r.out = 1..maxn
         /\ \A i \in 1..maxn :
               IF i > n THEN r.out[i] = Garbage
               ELSE IF v.items[i].t = "number" THEN r.out[i] \in Value(v.items[i])
               ELSE r.out[i] = 0

AsDoubles(item) == {FLValue_AsDouble(item)}
AsInts(item)    == {FLValue_AsInt(item, any) : any \in AnyInt}

\* C16.  cblu_docr_get_f64_array and cblu_docr_get_i64_array return 0 when the
\* key is absent or holds no array; otherwise they return min(storedCount,
\* maxCount), write that many elements from the start of the array in stored
\* order, 0 for an element that is no number, and nothing at or behind the
\* index of the returned count: so of every document saved and every
\* maxCount, and so the call a reader made.
C16_ArrayGetters ==
    /\ phase = "saved" =>
          \A k \in Keys, maxn \in 1..(MaxArr + 1) :
             /\ ArrayRead(get_f64_array(TRUE, saved, k, TRUE, Buffer(maxn), maxn),
                          saved[k], maxn, AsDoubles)
             /\ \A any \in AnyInt :
                   ArrayRead(get_i64_array(TRUE, saved, k, TRUE, Buffer(maxn), maxn, any),
                             saved[k], maxn, AsInts)
    /\ (phase = "read" /\ res.op \in {"get_f64_array", "get_i64_array"}
        /\ res.d /\ res.key # NULL /\ res.has_out /\ res.cap >= 1)
       => IF res.op = "get_f64_array"
          THEN ArrayRead(res, saved[res.key], res.cap, AsDoubles)
          ELSE ArrayRead(res, saved[res.key], res.cap, AsInts)

\* cblu_docr_get_i64_array read an array of two elements, the first no number,
\* into a buffer of one: it returned 1 and wrote the 0.
C16_Witness ==
    /\ phase = "read" /\ res.op = "get_i64_array"
    /\ res.d /\ res.key # NULL /\ res.has_out /\ res.cap = 1
    /\ saved[res.key].t = "array" /\ Len(saved[res.key].items) = 2
    /\ saved[res.key].items[1].t \in {"string", "boolean"}
    /\ res.ret = 1 /\ res.out = <<0>>

\* The value v is what set_i64_array or set_f64_array (call g: the pointer,
\* the values behind it, the count) is to store: an array of its own, no
\* builder's, of exactly g.n numbers, the values in input order, or zeros for
\* a null pointer.
ArrayStored(v, g) ==
    /\ v.t = "array" /\ v.ref = 0
    /\ Len(v.items) = g.n
    /\ \A i \in 1..g.n :
          /\ v.items[i].t = "number"
          /\ IF g.kind = "i64_array"
             THEN \A any \in AnyInt : FLValue_AsInt(v.items[i], any) = (IF g.has_a THEN g.a[i] ELSE 0)
             ELSE FLValue_AsDouble(v.items[i]) = (IF g.has_a THEN g.a[i] ELSE 0)

ArrayKinds == {"i64_array", "f64_array"}

\* C17.  cblu_docw_set_f64_array and cblu_docw_set_i64_array leave in the
\* field a new array of exactly count elements in input order, whatever the
\* field held before, count zeros when the pointer is null; so it is saved;
\* and the call reports nothing and changes no other field.
C17_SetArray ==
    /\ [](\A k \in Keys :
            given[k].kind \in ArrayKinds =>
               /\ ArrayStored(props[k], given[k])
               /\ phase = "saved" => ArrayStored(saved[k], given[k]))
    /\ [][\A k \in Keys :
            (given'[k].kind \in ArrayKinds
             /\ (given[k].kind \notin ArrayKinds \/ given'[k] # given[k])) =>
               /\ res' = res /\ phase' = phase /\ saved' = saved
               /\ \A j \in Keys \ {k} : props'[j] = props[j] /\ given'[j] = given[j]]_vars

\* A field that held a builder's array was given MaxArr elements behind a null
\* pointer: it holds MaxArr zeros, and the builder's array is out of the
\* document.
C17_Witness ==
    \E k \in Keys, b \in Builders :
        /\ builder[b].st = "detached"
        /\ given[k].kind = "i64_array" /\ ~given[k].has_a /\ given[k].n = MaxArr
        /\ props[k].items = [i \in 1..MaxArr |-> FLInt(0)]

\* The live sessions whose txn_active is set, and the sessions for which
\* CBLDatabase_BeginTransaction succeeded and CBLDatabase_EndTransaction was
\* not called yet.
Flagged  == {s \in Sessions : sess[s].st = "live" /\ sess[s].txn_active}
Unended  == {s \in Sessions : sess[s].began = "txn" /\ sess[s].endCalls = 0}

\* C18.  In every state the transactions begun and not yet ended are those of
\* the live sessions whose txn_active is set, and as many are open on the
\* database object (while the handle holds it open); a session exists only
\* once its begin is done (a begin-transaction that failed left no session
\* behind), and txn_active is set only on a session whose
\* CBLDatabase_BeginTransaction succeeded.
C18_TxnCount ==
    /\ Unended = Flagged
    /\ eng.st = "open" => eng.txnLevel = Cardinality(Flagged)
    /\ \A s \in Sessions :
          /\ sess[s].txn_active => (sess[s].st = "live" /\ sess[s].began = "txn")
          /\ sess[s].st = "live" => sess[s].began \in {"plain", "txn"}
          /\ sess[s].st = "unalloc" => sess[s] = NoSess

\* One transactional session was ended, another is live: one transaction is
\* open on the database.
C18_Witness ==
    /\ eng.st = "open" /\ eng.txnLevel = 1
    /\ \E s \in Sessions : sess[s].st = "freed" /\ sess[s].began = "txn" /\ sess[s].endCalls = 1
    /\ \E s \in Sessions : sess[s].st = "live" /\ sess[s].txn_active

\* C19.  While every session, writer and reader is released once and no
\* more, no call reads the memory of a session that was ended: cblu_docw_save
\* on a writer whose session was ended before does not go through the freed
\* session for its collection (line 220, d->core->coll with d->core = &s->core).
C19_NoReadOfEndedSession ==
    /\ ~hist.readFreedSess
    /\ \A w \in Writers :
          (wr[w].st = "freed" /\ wr[w].ret \in {"true", "false"}) => wr[w].rel = 1

====
